---- MODULE Spec2Model ----
(***************************************************************************)
(* The symbol-interning pass of the grammar generator                      *)
(* (cli/src/generate/prepare_grammar/intern_symbols.rs).                   *)
(*                                                                         *)
(* intern_symbols is modelled as a sequential process: one action per      *)
(* statement group of the function (the start-rule check, one iteration of *)
(* each for loop, the word-token block, the final eprintln!/Ok).  The      *)
(* helpers intern_rule, intern_name and variable_type_for_name are         *)
(* operators.  A name is a sequence of one-character strings, so that      *)
(* starts_with("_") and the error message's formatting are computed.       *)
(* Indices of symbols are 0-based as in the source; TLA+ sequences are     *)
(* 1-based, hence the "- 1" in intern_name.                                *)
(***************************************************************************)
EXTENDS Integers, Sequences, FiniteSets, TLC

(***************************************************************************)
(* Bounds of the input grammars.                                           *)
(***************************************************************************)
MaxVars == 2
MaxExternals == 2
MaxDepth == 2
MaxNames == 2

(***************************************************************************)
(* Option and Result values.                                               *)
(***************************************************************************)
None == [some |-> FALSE]
Some(v) == [some |-> TRUE, value |-> v]

Ok(v) == [tag |-> "Ok", value |-> v]
Err(m) == [tag |-> "Err", message |-> m]
Panic == [tag |-> "Panic"]
Running == [tag |-> "Running"]

(***************************************************************************)
(* Rule and Symbol values.                                                 *)
(***************************************************************************)
Choice(elements) == [type |-> "Choice", elements |-> elements]
SeqRule(elements) == [type |-> "Seq", elements |-> elements]
Repeat(content) == [type |-> "Repeat", content |-> content]
Metadata(rule, params) == [type |-> "Metadata", rule |-> rule, params |-> params]
NamedSymbol(name) == [type |-> "NamedSymbol", name |-> name]
SymbolRule(symbol) == [type |-> "Symbol", symbol |-> symbol]
StringRule(value) == [type |-> "String", value |-> value]

non_terminal(index) == [kind |-> "NonTerminal", index |-> index]
external(index) == [kind |-> "External", index |-> index]

Variable(name, kind, rule) == [name |-> name, kind |-> kind, rule |-> rule]

(***************************************************************************)
(* Error messages, as sequences of text pieces.  BACKQUOTE stands for the  *)
(* backquote character that encloses the name in "Undefined symbol ...".   *)
(***************************************************************************)
StartRuleMessage == <<"A grammar's start rule must be visible.">>
undefined_symbol(name) == <<"Undefined symbol ", "BACKQUOTE">> \o name \o <<"BACKQUOTE">>

(***************************************************************************)
(* variable_type_for_name                                                  *)
(***************************************************************************)
\* Variant: the prefix is not looked at.
variable_type_for_name_always_named(name) == "Named"

variable_type_for_name(name) ==
    IF Len(name) >= 1 /\ name[1] = "_" THEN "Hidden" ELSE "Named"

(***************************************************************************)
(* Interner::intern_name: the variables are searched first, in order, then *)
(* the external tokens that are NamedSymbols.                              *)
(***************************************************************************)
RECURSIVE find_variable(_, _, _)

\* Variant: the 1-based position is used as the index.
find_variable_one_based(g, symbol, i) ==
    IF i > Len(g.variables) THEN None
    ELSE IF g.variables[i].name = symbol THEN Some(non_terminal(i))
    ELSE find_variable(g, symbol, i + 1)

find_variable(g, symbol, i) ==
    IF i > Len(g.variables) THEN None
    ELSE IF g.variables[i].name = symbol THEN Some(non_terminal(i - 1))
    ELSE find_variable(g, symbol, i + 1)

RECURSIVE find_external_token(_, _, _)

\* Variant: the search goes on after a match, so the last match wins.
find_external_token_last(g, symbol, i) ==
    IF i > Len(g.external_tokens) THEN None
    ELSE LET later == find_external_token(g, symbol, i + 1)
         IN IF later.some THEN later
            ELSE IF /\ g.external_tokens[i].type = "NamedSymbol"
                    /\ g.external_tokens[i].name = symbol
                 THEN Some(external(i - 1))
            ELSE None

find_external_token(g, symbol, i) ==
    IF i > Len(g.external_tokens) THEN None
    ELSE IF /\ g.external_tokens[i].type = "NamedSymbol"
            /\ g.external_tokens[i].name = symbol
         THEN Some(external(i - 1))
    ELSE find_external_token(g, symbol, i + 1)

\* Variant: the external tokens are searched before the variables.
intern_name_external_first(g, symbol) ==
    LET e == find_external_token(g, symbol, 1)
    IN IF e.some THEN e ELSE find_variable(g, symbol, 1)

intern_name(g, symbol) ==
    LET v == find_variable(g, symbol, 1)
    IN IF v.some THEN v ELSE find_external_token(g, symbol, 1)

(***************************************************************************)
(* Interner::intern_rule                                                   *)
(***************************************************************************)
RECURSIVE intern_rule(_, _)
RECURSIVE intern_elements(_, _, _)

\* Variant: the elements after the first are interned before the first.
intern_elements_tail_first(g, elements, result) ==
    IF elements = <<>> THEN Ok(result)
    ELSE LET rest == intern_elements(g, Tail(elements), <<>>)
             r == intern_rule(g, Head(elements))
         IN IF rest.tag # "Ok" THEN rest
            ELSE IF r.tag # "Ok" THEN r
            ELSE Ok(result \o <<r.value>> \o rest.value)

intern_elements(g, elements, result) ==
    IF elements = <<>> THEN Ok(result)
    ELSE LET r == intern_rule(g, Head(elements))
         IN IF r.tag = "Ok"
            THEN intern_elements(g, Tail(elements), Append(result, r.value))
            ELSE r

\* Variant: a Seq is rebuilt as a Choice and Metadata loses its wrapper.
intern_rule_reshaping(g, rule) ==
    CASE rule.type \in {"Choice", "Seq"} ->
            LET r == intern_elements(g, rule.elements, <<>>)
            IN IF r.tag = "Ok" THEN Ok(Choice(r.value)) ELSE r
      [] rule.type = "Repeat" ->
            LET r == intern_rule(g, rule.content)
            IN IF r.tag = "Ok" THEN Ok(Repeat(r.value)) ELSE r
      [] rule.type = "Metadata" -> intern_rule(g, rule.rule)
      [] rule.type = "NamedSymbol" ->
            LET s == intern_name(g, rule.name)
            IN IF s.some THEN Ok(SymbolRule(s.value))
               ELSE Err(undefined_symbol(rule.name))
      [] OTHER -> Ok(rule)

intern_rule(g, rule) ==
    CASE rule.type = "Choice" ->
            LET r == intern_elements(g, rule.elements, <<>>)
            IN IF r.tag = "Ok" THEN Ok(Choice(r.value)) ELSE r
      [] rule.type = "Seq" ->
            LET r == intern_elements(g, rule.elements, <<>>)
            IN IF r.tag = "Ok" THEN Ok(SeqRule(r.value)) ELSE r
      [] rule.type = "Repeat" ->
            LET r == intern_rule(g, rule.content)
            IN IF r.tag = "Ok" THEN Ok(Repeat(r.value)) ELSE r
      [] rule.type = "Metadata" ->
            LET r == intern_rule(g, rule.rule)
            IN IF r.tag = "Ok" THEN Ok(Metadata(r.value, rule.params)) ELSE r
      [] rule.type = "NamedSymbol" ->
            LET s == intern_name(g, rule.name)
            IN IF s.some THEN Ok(SymbolRule(s.value))
               ELSE Err(undefined_symbol(rule.name))
      [] OTHER -> Ok(rule)

(***************************************************************************)
(* The loop of lines 50-56 over the names of one conflict group.           *)
(***************************************************************************)
RECURSIVE intern_conflict(_, _, _)
intern_conflict(g, conflict, interned_conflict) ==
    IF conflict = <<>> THEN Ok(interned_conflict)
    ELSE LET s == intern_name(g, Head(conflict))
         IN IF s.some
            THEN intern_conflict(g, Tail(conflict), Append(interned_conflict, s.value))
            ELSE Err(undefined_symbol(Head(conflict)))

(***************************************************************************)
(* State of one run of intern_symbols.                                     *)
(*   grammar   the InputGrammar passed by reference                        *)
(*   pc, i     the position in the function body and the loop index        *)
(*   variables .. word_token   the locals assembled by the function        *)
(*   result    the value returned (or the panic)                           *)
(*   stderr    what the run wrote to the standard error stream             *)
(*   interned  the number of entries of the input collections that the     *)
(*             function body has handed to intern_rule / intern_name       *)
(***************************************************************************)
VARIABLES grammar, pc, i, variables, external_tokens, extra_tokens,
          supertype_symbols, expected_conflicts, variables_to_inline,
          word_token, result, stderr, interned

locals == <<variables, external_tokens, extra_tokens, supertype_symbols,
            expected_conflicts, variables_to_inline, word_token>>
vars == <<grammar, pc, i, locals, result, stderr, interned>>

\* Leaving the function: the locals are dropped (or moved into the result).
Return(r) ==
    /\ result' = r
    /\ pc' = "done"
    /\ i' = 0
    /\ variables' = <<>>
    /\ external_tokens' = <<>>
    /\ extra_tokens' = <<>>
    /\ supertype_symbols' = <<>>
    /\ expected_conflicts' = <<>>
    /\ variables_to_inline' = <<>>
    /\ word_token' = None

\* Lines 7-11: grammar.variables[0] panics on an empty list.
StartRuleCheck ==
    /\ pc = "start"
    /\ IF Len(grammar.variables) = 0
       THEN Return(Panic)
       ELSE IF variable_type_for_name(grammar.variables[1].name) = "Hidden"
       THEN Return(Err(StartRuleMessage))
       ELSE /\ pc' = "variables"
            /\ i' = 1
            /\ UNCHANGED <<locals, result>>
    /\ UNCHANGED <<grammar, stderr, interned>>

\* Lines 13-20: one iteration of the loop over grammar.variables.
InternVariable ==
    /\ pc = "variables"
    /\ IF i > Len(grammar.variables)
       THEN /\ pc' = "external_tokens"
            /\ i' = 1
            /\ UNCHANGED <<locals, result, interned>>
       ELSE LET variable == grammar.variables[i]
                r == intern_rule(grammar, variable.rule)
            IN /\ interned' = interned + 1
               /\ IF r.tag = "Ok"
                  THEN /\ variables' = Append(variables,
                              Variable(variable.name,
                                       variable_type_for_name(variable.name),
                                       r.value))
                       /\ i' = i + 1
                       /\ UNCHANGED <<pc, result, external_tokens, extra_tokens,
                                      supertype_symbols, expected_conflicts,
                                      variables_to_inline, word_token>>
                  ELSE Return(r)
    /\ UNCHANGED <<grammar, stderr>>

\* Lines 22-31: one iteration of the loop over grammar.external_tokens.
InternExternalToken ==
    /\ pc = "external_tokens"
    /\ IF i > Len(grammar.external_tokens)
       THEN /\ pc' = "extra_tokens"
            /\ i' = 1
            /\ UNCHANGED <<locals, result, interned>>
       ELSE LET external_token == grammar.external_tokens[i]
                r == intern_rule(grammar, external_token)
                name == IF external_token.type = "NamedSymbol"
                        THEN external_token.name ELSE <<>>
                kind == IF external_token.type = "NamedSymbol"
                        THEN variable_type_for_name(external_token.name)
                        ELSE "Anonymous"
            IN /\ interned' = interned + 1
               /\ IF r.tag = "Ok"
                  THEN /\ external_tokens' =
                              Append(external_tokens, Variable(name, kind, r.value))
                       /\ i' = i + 1
                       /\ UNCHANGED <<pc, result, variables, extra_tokens,
                                      supertype_symbols, expected_conflicts,
                                      variables_to_inline, word_token>>
                  ELSE Return(r)
    /\ UNCHANGED <<grammar, stderr>>

\* Lines 33-36: one iteration of the loop over grammar.extra_tokens.
InternExtraToken ==
    /\ pc = "extra_tokens"
    /\ IF i > Len(grammar.extra_tokens)
       THEN /\ pc' = "supertype_symbols"
            /\ i' = 1
            /\ UNCHANGED <<locals, result, interned>>
       ELSE LET r == intern_rule(grammar, grammar.extra_tokens[i])
            IN /\ interned' = interned + 1
               /\ IF r.tag = "Ok"
                  THEN /\ extra_tokens' = Append(extra_tokens, r.value)
                       /\ i' = i + 1
                       /\ UNCHANGED <<pc, result, variables, external_tokens,
                                      supertype_symbols, expected_conflicts,
                                      variables_to_inline, word_token>>
                  ELSE Return(r)
    /\ UNCHANGED <<grammar, stderr>>

\* Variant: an unresolved supertype name is dropped instead of reported.
InternSupertypeSymbolSoft ==
    /\ pc = "supertype_symbols"
    /\ IF i > Len(grammar.supertype_symbols)
       THEN /\ pc' = "expected_conflicts"
            /\ i' = 1
            /\ UNCHANGED <<locals, interned>>
       ELSE LET s == intern_name(grammar, grammar.supertype_symbols[i])
            IN /\ interned' = interned + 1
               /\ supertype_symbols' =
                      IF s.some THEN Append(supertype_symbols, s.value)
                      ELSE supertype_symbols
               /\ i' = i + 1
               /\ UNCHANGED <<pc, variables, external_tokens, extra_tokens,
                              expected_conflicts, variables_to_inline, word_token>>
    /\ UNCHANGED <<grammar, result, stderr>>

\* Lines 38-45: one iteration of the loop over grammar.supertype_symbols.
InternSupertypeSymbol ==
    /\ pc = "supertype_symbols"
    /\ IF i > Len(grammar.supertype_symbols)
       THEN /\ pc' = "expected_conflicts"
            /\ i' = 1
            /\ UNCHANGED <<locals, result, interned>>
       ELSE LET supertype_symbol_name == grammar.supertype_symbols[i]
                s == intern_name(grammar, supertype_symbol_name)
            IN /\ interned' = interned + 1
               /\ IF s.some
                  THEN /\ supertype_symbols' = Append(supertype_symbols, s.value)
                       /\ i' = i + 1
                       /\ UNCHANGED <<pc, result, variables, external_tokens,
                                      extra_tokens, expected_conflicts,
                                      variables_to_inline, word_token>>
                  ELSE Return(Err(undefined_symbol(supertype_symbol_name)))
    /\ UNCHANGED <<grammar, stderr>>

\* Lines 47-58: one iteration of the outer loop over grammar.expected_conflicts.
InternExpectedConflict ==
    /\ pc = "expected_conflicts"
    /\ IF i > Len(grammar.expected_conflicts)
       THEN /\ pc' = "variables_to_inline"
            /\ i' = 1
            /\ UNCHANGED <<locals, result, interned>>
       ELSE LET r == intern_conflict(grammar, grammar.expected_conflicts[i], <<>>)
            IN /\ interned' = interned + 1
               /\ IF r.tag = "Ok"
                  THEN /\ expected_conflicts' = Append(expected_conflicts, r.value)
                       /\ i' = i + 1
                       /\ UNCHANGED <<pc, result, variables, external_tokens,
                                      extra_tokens, supertype_symbols,
                                      variables_to_inline, word_token>>
                  ELSE Return(r)
    /\ UNCHANGED <<grammar, stderr>>

\* Variant: an unresolved inline name is reported like any other.
InternVariableToInlineHard ==
    /\ pc = "variables_to_inline"
    /\ IF i > Len(grammar.variables_to_inline)
       THEN /\ pc' = "word_token"
            /\ i' = 0
            /\ UNCHANGED <<locals, result, interned>>
       ELSE LET s == intern_name(grammar, grammar.variables_to_inline[i])
            IN /\ interned' = interned + 1
               /\ IF s.some
                  THEN /\ variables_to_inline' = Append(variables_to_inline, s.value)
                       /\ i' = i + 1
                       /\ UNCHANGED <<pc, result, variables, external_tokens,
                                      extra_tokens, supertype_symbols,
                                      expected_conflicts, word_token>>
                  ELSE Return(Err(undefined_symbol(grammar.variables_to_inline[i])))
    /\ UNCHANGED <<grammar, stderr>>

\* Lines 60-65: one iteration of the loop over grammar.variables_to_inline.
InternVariableToInline ==
    /\ pc = "variables_to_inline"
    /\ IF i > Len(grammar.variables_to_inline)
       THEN /\ pc' = "word_token"
            /\ i' = 0
            /\ UNCHANGED <<locals, interned>>
       ELSE LET s == intern_name(grammar, grammar.variables_to_inline[i])
            IN /\ interned' = interned + 1
               /\ variables_to_inline' =
                      IF s.some THEN Append(variables_to_inline, s.value)
                      ELSE variables_to_inline
               /\ i' = i + 1
               /\ UNCHANGED <<pc, variables, external_tokens, extra_tokens,
                              supertype_symbols, expected_conflicts, word_token>>
    /\ UNCHANGED <<grammar, result, stderr>>

\* Lines 67-74: the word token, when the grammar has one.
InternWordToken ==
    /\ pc = "word_token"
    /\ IF grammar.word_token.some
       THEN LET s == intern_name(grammar, grammar.word_token.value)
            IN /\ interned' = interned + 1
               /\ IF s.some
                  THEN /\ word_token' = Some(s.value)
                       /\ pc' = "return"
                       /\ UNCHANGED <<i, result, variables, external_tokens,
                                      extra_tokens, supertype_symbols,
                                      expected_conflicts, variables_to_inline>>
                  ELSE Return(Err(undefined_symbol(grammar.word_token.value)))
       ELSE /\ pc' = "return"
            /\ UNCHANGED <<i, locals, result, interned>>
    /\ UNCHANGED <<grammar, stderr>>

\* Lines 76-86: the eprintln! of the supertype symbols, then Ok(InternedGrammar).
ReturnInternedGrammar ==
    /\ pc = "return"
    /\ stderr' = Append(stderr, <<"supertype_symbols: ", supertype_symbols>>)
    /\ Return(Ok([variables |-> variables,
                  external_tokens |-> external_tokens,
                  extra_tokens |-> extra_tokens,
                  expected_conflicts |-> expected_conflicts,
                  variables_to_inline |-> variables_to_inline,
                  supertype_symbols |-> supertype_symbols,
                  word_token |-> word_token]))
    /\ UNCHANGED <<grammar, interned>>

(***************************************************************************)
(* The input grammars.                                                     *)
(***************************************************************************)
SeqsUpTo(S, n) == UNION {[1..k -> S] : k \in 0..n}

x == <<"x">>
y == <<"y">>
hidden_z == <<"_", "z">>
Names == {x, y, hidden_z}
RefNames == {y, hidden_z}

Leaves == {NamedSymbol(n) : n \in RefNames} \cup {StringRule("a")}
BodyLeaves == {NamedSymbol(x), NamedSymbol(y), StringRule("a")}
Params == [prec |-> 1]

\* The rule trees of nesting depth at most d over BodyLeaves.  A Choice or a
\* Seq has zero, one or two children, one of them of depth below d - 1 only
\* when it is a leaf.
RECURSIVE Rules(_)
Rules(d) ==
    IF d = 0 THEN BodyLeaves
    ELSE LET S == Rules(d - 1)
             Elements == {<<>>} \cup {<<a>> : a \in S}
                           \cup {<<a, b>> : a \in S, b \in BodyLeaves}
                           \cup {<<b, a>> : a \in S, b \in BodyLeaves}
         IN BodyLeaves
              \cup {Choice(e) : e \in Elements}
              \cup {SeqRule(e) : e \in Elements}
              \cup {Repeat(a) : a \in S}
              \cup {Metadata(a, Params) : a \in S}

InputVariable(name, rule) == Variable(name, "Named", rule)

InputGrammar(vs, ext, extra, conflicts, inline, supertypes, word) ==
    [variables |-> vs, external_tokens |-> ext, extra_tokens |-> extra,
     expected_conflicts |-> conflicts, variables_to_inline |-> inline,
     supertype_symbols |-> supertypes, word_token |-> word]

build_grammar(vs) == InputGrammar(vs, <<>>, <<>>, <<>>, <<>>, <<>>, None)

\* The grammars of the three unit tests of the source file.
w == <<"w">>
z == <<"z">>
basic_repeat_grammar ==
    build_grammar(<<InputVariable(x, Choice(<<NamedSymbol(y), NamedSymbol(hidden_z)>>)),
                    InputVariable(y, NamedSymbol(hidden_z)),
                    InputVariable(hidden_z, StringRule("a"))>>)
external_token_names_grammar ==
    [build_grammar(<<InputVariable(w, Choice(<<NamedSymbol(x), NamedSymbol(y),
                                               NamedSymbol(z)>>)),
                     InputVariable(x, StringRule("a")),
                     InputVariable(y, StringRule("b"))>>)
        EXCEPT !.external_tokens = <<NamedSymbol(y), NamedSymbol(z)>>]
undefined_symbols_grammar == build_grammar(<<InputVariable(x, NamedSymbol(y))>>)

TestGrammars ==
    {basic_repeat_grammar, external_token_names_grammar, undefined_symbols_grammar}

\* A variable whose name is the empty string.
EmptyNameGrammars ==
    { build_grammar(<<InputVariable(<<>>, r)>>) :
        r \in {NamedSymbol(<<>>), NamedSymbol(x), StringRule("a")} }

\* Rule bodies: the first variable carries a rule tree of depth at most
\* MaxDepth over the names x and y; x is the first variable or undeclared,
\* y is undeclared, a variable, an external token or both.
BodyContexts ==
    { [first |-> x, rest |-> <<>>, ext |-> <<>>],
      [first |-> x, rest |-> <<>>, ext |-> <<StringRule("e"), NamedSymbol(y)>>],
      [first |-> x, rest |-> <<InputVariable(y, StringRule("b"))>>,
       ext |-> <<StringRule("e"), NamedSymbol(y)>>],
      [first |-> w, rest |-> <<InputVariable(y, StringRule("b"))>>, ext |-> <<>>],
      [first |-> w, rest |-> <<>>, ext |-> <<>>] }

BodyGrammar ==
    \E r \in Rules(MaxDepth), c \in BodyContexts :
        grammar = [build_grammar(<<InputVariable(c.first, r)>> \o c.rest)
                      EXCEPT !.external_tokens = c.ext]

\* Declarations: up to MaxVars variables with any names and leaf rules, up to
\* MaxExternals external tokens.
DeclGrammar ==
    \E vs \in SeqsUpTo({InputVariable(n, r) : n \in Names, r \in Leaves}, MaxVars),
       ext \in SeqsUpTo({NamedSymbol(y), StringRule("e")}, MaxExternals) :
        grammar = [build_grammar(vs) EXCEPT !.external_tokens = ext]

\* References outside the variables: a few declaration lists, and name lists
\* of up to MaxNames names, at most two of the five collections being
\* non-empty at a time.
RefContexts ==
    { [vs |-> <<x>>, ext |-> <<>>],
      [vs |-> <<x, y>>, ext |-> <<NamedSymbol(y), NamedSymbol(hidden_z)>>],
      [vs |-> <<x, hidden_z, y>>, ext |-> <<StringRule("e"), NamedSymbol(y)>>],
      [vs |-> <<x>>, ext |-> <<StringRule("e"), NamedSymbol(hidden_z),
                               NamedSymbol(y), NamedSymbol(y)>>],
      [vs |-> <<x, y, y>>, ext |-> <<StringRule("e"), NamedSymbol(hidden_z)>>],
      [vs |-> <<hidden_z, y>>, ext |-> <<>>],
      [vs |-> <<>>, ext |-> <<NamedSymbol(y)>>] }

NameLists == SeqsUpTo(RefNames, MaxNames)
RefFields == {"extra", "conflicts", "inline", "supertypes", "word"}
EmptyRefs == [extra |-> <<>>, conflicts |-> <<>>, inline |-> <<>>,
              supertypes |-> <<>>, word |-> None]
RefChoices ==
    [extra |-> {<<>>} \cup {<<NamedSymbol(n)>> : n \in RefNames}
                      \cup {<<Repeat(NamedSymbol(y)), NamedSymbol(hidden_z)>>,
                            <<StringRule(" "), NamedSymbol(y)>>},
     conflicts |-> {<<>>} \cup {<<c>> : c \in NameLists}
                          \cup {<<<<a>>, <<b>>>> : a, b \in RefNames},
     inline |-> NameLists,
     supertypes |-> NameLists,
     word |-> {None} \cup {Some(n) : n \in RefNames}]

RefGrammar ==
    \E c \in RefContexts, p, q \in RefFields :
      \E a \in RefChoices[p], b \in RefChoices[q] :
        LET t == [f \in RefFields |-> IF f = p THEN a
                                      ELSE IF f = q THEN b ELSE EmptyRefs[f]]
        IN grammar =
             InputGrammar([k \in 1..Len(c.vs) |-> InputVariable(c.vs[k], StringRule("a"))],
                          c.ext, t.extra, t.conflicts, t.inline, t.supertypes, t.word)

\* Every collection non-empty at once.
FullGrammar ==
    \E inline \in SeqsUpTo(Names \cup {z}, MaxNames),
       word \in {None, Some(x), Some(hidden_z), Some(z)} :
        grammar =
          InputGrammar(<<InputVariable(x, SeqRule(<<NamedSymbol(y), NamedSymbol(hidden_z)>>)),
                         InputVariable(y, StringRule("b"))>>,
                       <<NamedSymbol(y), NamedSymbol(hidden_z)>>,
                       <<NamedSymbol(hidden_z)>>,
                       <<<<x, hidden_z>>, <<y>>>>,
                       inline, <<y, x>>, word)

Init ==
    /\ \/ grammar \in TestGrammars
       \/ grammar \in EmptyNameGrammars
       \/ BodyGrammar
       \/ DeclGrammar
       \/ RefGrammar
       \/ FullGrammar
    /\ pc = "start"
    /\ i = 0
    /\ variables = <<>>
    /\ external_tokens = <<>>
    /\ extra_tokens = <<>>
    /\ supertype_symbols = <<>>
    /\ expected_conflicts = <<>>
    /\ variables_to_inline = <<>>
    /\ word_token = None
    /\ result = Running
    /\ stderr = <<>>
    /\ interned = 0

Next ==
    \/ StartRuleCheck
    \/ InternVariable
    \/ InternExternalToken
    \/ InternExtraToken
    \/ InternSupertypeSymbol
    \/ InternExpectedConflict
    \/ InternVariableToInline
    \/ InternWordToken
    \/ ReturnInternedGrammar

Spec == Init /\ [][Next]_vars

(***************************************************************************)
(* The assertions of the unit tests of the source file.                    *)
(***************************************************************************)
test_basic_repeat_expansion ==
    (pc = "done" /\ grammar = basic_repeat_grammar) =>
        /\ result.tag = "Ok"
        /\ result.value.variables =
              <<Variable(x, "Named", Choice(<<SymbolRule(non_terminal(1)),
                                              SymbolRule(non_terminal(2))>>)),
                Variable(y, "Named", SymbolRule(non_terminal(2))),
                Variable(hidden_z, "Hidden", StringRule("a"))>>

test_interning_external_token_names ==
    (pc = "done" /\ grammar = external_token_names_grammar) =>
        /\ result.tag = "Ok"
        /\ result.value.variables =
              <<Variable(w, "Named", Choice(<<SymbolRule(non_terminal(1)),
                                              SymbolRule(non_terminal(2)),
                                              SymbolRule(external(1))>>)),
                Variable(x, "Named", StringRule("a")),
                Variable(y, "Named", StringRule("b"))>>
        /\ result.value.external_tokens =
              <<Variable(y, "Named", SymbolRule(non_terminal(2))),
                Variable(z, "Named", SymbolRule(external(1)))>>

test_grammar_with_undefined_symbols ==
    (pc = "done" /\ grammar = undefined_symbols_grammar) =>
        result = Err(<<"Undefined symbol ", "BACKQUOTE", "y", "BACKQUOTE">>)

(***************************************************************************)
(* Vocabulary of the properties, stated on the input grammar directly.     *)
(***************************************************************************)
Done == pc = "done"
Succeeded == pc = "done" /\ result.tag = "Ok"

VariablePositions(g, n) == {k \in 1..Len(g.variables) : g.variables[k].name = n}
ExternalPositions(g, n) ==
    {k \in 1..Len(g.external_tokens) : g.external_tokens[k] = NamedSymbol(n)}
Declared(g, n) == VariablePositions(g, n) # {}
ExternalNamed(g, n) == ExternalPositions(g, n) # {}
Resolvable(g, n) == Declared(g, n) \/ ExternalNamed(g, n)
FirstOf(S) == CHOOSE k \in S : \A j \in S : k <= j

\* The symbol a resolvable name stands for.
Resolved(g, n) ==
    IF Declared(g, n) THEN non_terminal(FirstOf(VariablePositions(g, n)) - 1)
    ELSE external(FirstOf(ExternalPositions(g, n)) - 1)

Flatten(ss) ==
    LET RECURSIVE F(_)
        F(k) == IF k > Len(ss) THEN <<>> ELSE ss[k] \o F(k + 1)
    IN F(1)

\* The names referred to by a rule tree, left to right.
RECURSIVE NamesOf(_)
NamesOf(rule) ==
    CASE rule.type \in {"Choice", "Seq"} ->
            Flatten([k \in 1..Len(rule.elements) |-> NamesOf(rule.elements[k])])
      [] rule.type = "Repeat" -> NamesOf(rule.content)
      [] rule.type = "Metadata" -> NamesOf(rule.rule)
      [] rule.type = "NamedSymbol" -> <<rule.name>>
      [] OTHER -> <<>>

\* The names in the hard-fail contexts of a grammar, in processing order.
HardNames(g) ==
    Flatten([k \in 1..Len(g.variables) |-> NamesOf(g.variables[k].rule)])
      \o Flatten([k \in 1..Len(g.external_tokens) |-> NamesOf(g.external_tokens[k])])
      \o Flatten([k \in 1..Len(g.extra_tokens) |-> NamesOf(g.extra_tokens[k])])
      \o g.supertype_symbols
      \o Flatten(g.expected_conflicts)
      \o (IF g.word_token.some THEN <<g.word_token.value>> ELSE <<>>)

Unresolved(g, names) == SelectSeq(names, LAMBDA n : ~Resolvable(g, n))
HardUndefined(g) == Unresolved(g, HardNames(g)) # <<>>

NonEmpty(g) == Len(g.variables) >= 1
HiddenStart(g) ==
    /\ NonEmpty(g)
    /\ Len(g.variables[1].name) >= 1
    /\ g.variables[1].name[1] = "_"
VisibleStart(g) == NonEmpty(g) /\ ~HiddenStart(g)

\* The references of an input rule paired with the nodes that stand at the
\* same places of an output rule.
RECURSIVE RefPairs(_, _)
RefPairs(in, out) ==
    CASE in.type = "NamedSymbol" -> {[name |-> in.name, node |-> out]}
      [] in.type \in {"Choice", "Seq"} ->
            IF out.type = in.type /\ Len(out.elements) = Len(in.elements)
            THEN UNION {RefPairs(in.elements[k], out.elements[k]) :
                          k \in 1..Len(in.elements)}
            ELSE {}
      [] in.type = "Repeat" ->
            IF out.type = "Repeat" THEN RefPairs(in.content, out.content) ELSE {}
      [] in.type = "Metadata" ->
            IF out.type = "Metadata" THEN RefPairs(in.rule, out.rule) ELSE {}
      [] OTHER -> {}

Both(s, t) == 1..(IF Len(s) <= Len(t) THEN Len(s) ELSE Len(t))

NamePairs(names, symbols) ==
    {[name |-> names[k], node |-> SymbolRule(symbols[k])] : k \in Both(names, symbols)}

\* Every reference of grammar g with what replaced it in the output o.
AllRefPairs(g, o) ==
    UNION {RefPairs(g.variables[k].rule, o.variables[k].rule) :
             k \in Both(g.variables, o.variables)}
      \cup UNION {RefPairs(g.external_tokens[k], o.external_tokens[k].rule) :
                    k \in Both(g.external_tokens, o.external_tokens)}
      \cup UNION {RefPairs(g.extra_tokens[k], o.extra_tokens[k]) :
                    k \in Both(g.extra_tokens, o.extra_tokens)}
      \cup NamePairs(g.supertype_symbols, o.supertype_symbols)
      \cup UNION {NamePairs(g.expected_conflicts[k], o.expected_conflicts[k]) :
                    k \in Both(g.expected_conflicts, o.expected_conflicts)}
      \cup NamePairs(SelectSeq(g.variables_to_inline, LAMBDA n : Resolvable(g, n)),
                     o.variables_to_inline)
      \cup (IF g.word_token.some /\ o.word_token.some
            THEN {[name |-> g.word_token.value, node |-> SymbolRule(o.word_token.value)]}
            ELSE {})

IsSymbol(node, kind) == node.type = "Symbol" /\ node.symbol.kind = kind

(***************************************************************************)
(* C1 -- Priority rule.  When a run succeeds, every reference to a name    *)
(* that is both the name of a variable and a NamedSymbol external token    *)
(* has become a NonTerminal symbol, and a reference has become an External *)
(* symbol only if no variable carries its name.                            *)
(***************************************************************************)
PriorityRule ==
    Succeeded =>
        \A p \in AllRefPairs(grammar, result.value) :
            /\ Declared(grammar, p.name) /\ ExternalNamed(grammar, p.name)
                  => IsSymbol(p.node, "NonTerminal")
            /\ IsSymbol(p.node, "External") => ~Declared(grammar, p.name)

SharedName(g, n) == Declared(g, n) /\ ExternalNamed(g, n)

\* A successful run whose grammar refers to a shared name from a variable's
\* rule, from the external token itself and from the word token.
PriorityRuleWitness ==
    /\ Succeeded
    /\ \E n \in Names :
          /\ SharedName(grammar, n)
          /\ \E k \in 1..Len(grammar.variables) :
                \E e \in 1..Len(NamesOf(grammar.variables[k].rule)) :
                    NamesOf(grammar.variables[k].rule)[e] = n
          /\ \E p \in AllRefPairs(grammar, result.value) :
                p.name = n /\ IsSymbol(p.node, "NonTerminal")
    /\ \E p \in AllRefPairs(grammar, result.value) : IsSymbol(p.node, "External")

(***************************************************************************)
(* C2 -- Index fidelity.  When a run succeeds, the symbol that replaced a  *)
(* reference to n is NonTerminal(i), i the 0-based position of the first   *)
(* variable named n, or External(j), j the 0-based position of the first   *)
(* external token that is NamedSymbol(n); and the output variables and     *)
(* external tokens have the length and the order of the input lists.       *)
(***************************************************************************)
IndexFidelity ==
    Succeeded =>
        LET o == result.value IN
        /\ \A p \in AllRefPairs(grammar, o) :
              /\ p.node.type = "Symbol"
              /\ \/ /\ p.node.symbol.kind = "NonTerminal"
                    /\ Declared(grammar, p.name)
                    /\ p.node.symbol.index + 1 = FirstOf(VariablePositions(grammar, p.name))
                 \/ /\ p.node.symbol.kind = "External"
                    /\ ExternalNamed(grammar, p.name)
                    /\ p.node.symbol.index + 1 = FirstOf(ExternalPositions(grammar, p.name))
        /\ Len(o.variables) = Len(grammar.variables)
        /\ \A k \in 1..Len(grammar.variables) :
              o.variables[k].name = grammar.variables[k].name
        /\ Len(o.external_tokens) = Len(grammar.external_tokens)
        /\ \A k \in 1..Len(grammar.external_tokens) :
              o.external_tokens[k].name =
                 IF grammar.external_tokens[k].type = "NamedSymbol"
                 THEN grammar.external_tokens[k].name ELSE <<>>

\* A successful run with a reference to a name carried by two variables and
\* a reference resolved to an external token that is not the first entry.
IndexFidelityWitness ==
    /\ Succeeded
    /\ \E p \in AllRefPairs(grammar, result.value) :
          /\ Cardinality(VariablePositions(grammar, p.name)) >= 2
          /\ IsSymbol(p.node, "NonTerminal")
          /\ p.node.symbol.index >= 1
    /\ \E p \in AllRefPairs(grammar, result.value) :
          /\ IsSymbol(p.node, "External")
          /\ p.node.symbol.index >= 1

(***************************************************************************)
(* C3 -- Undefined reference is a hard failure (as claimed): whenever a    *)
(* name that no variable and no NamedSymbol external token carries occurs  *)
(* in a hard-fail context, the run ends with an "Undefined symbol" error   *)
(* that carries one of the unresolved names of the input.                  *)
(***************************************************************************)
IsUndefinedSymbolError(g, r) ==
    /\ r.tag = "Err"
    /\ \E k \in 1..Len(Unresolved(g, HardNames(g))) :
          r.message = <<"Undefined symbol ", "BACKQUOTE">>
                         \o Unresolved(g, HardNames(g))[k] \o <<"BACKQUOTE">>

UndefinedReferenceAlwaysFails ==
    (Done /\ HardUndefined(grammar)) => IsUndefinedSymbolError(grammar, result)

(***************************************************************************)
(* C3, amended -- whenever such a name occurs in a hard-fail context, no   *)
(* InternedGrammar is produced; the run ends with the "Undefined symbol"   *)
(* error carrying an unresolved name of the input when variables[0] is     *)
(* visible, and with the start-rule error when variables[0] is hidden.     *)
(***************************************************************************)
UndefinedReferenceFails ==
    (Done /\ HardUndefined(grammar)) =>
        /\ result.tag # "Ok"
        /\ VisibleStart(grammar) => IsUndefinedSymbolError(grammar, result)
        /\ HiddenStart(grammar) => result = Err(StartRuleMessage)

\* A grammar with a visible start rule whose only unresolved names stand in
\* an expected-conflicts group has been rejected.
UndefinedReferenceWitness ==
    /\ Done
    /\ VisibleStart(grammar)
    /\ HardUndefined(grammar)
    /\ Unresolved(grammar, Flatten(grammar.expected_conflicts)) # <<>>
    /\ Len(Unresolved(grammar, HardNames(grammar)))
          = Len(Unresolved(grammar, Flatten(grammar.expected_conflicts)))
    /\ IsUndefinedSymbolError(grammar, result)

(***************************************************************************)
(* C4 -- Start-rule guard.  When the name of variables[0] begins with "_", *)
(* the run ends with the start-rule error and nothing has been interned;   *)
(* and the first variable of every successful output is not Hidden.        *)
(***************************************************************************)
StartRuleGuard ==
    /\ (Done /\ HiddenStart(grammar)) =>
          /\ result = Err(StartRuleMessage)
          /\ interned = 0
    /\ Succeeded =>
          /\ Len(result.value.variables) >= 1
          /\ result.value.variables[1].kind # "Hidden"

\* A grammar with a hidden start rule and an undefined reference in a
\* variable's rule has been rejected.
StartRuleGuardWitness ==
    /\ Done
    /\ HiddenStart(grammar)
    /\ Unresolved(grammar, NamesOf(grammar.variables[1].rule)) # <<>>
    /\ result = Err(StartRuleMessage)

(***************************************************************************)
(* C5 -- Soft-fail inlining.  A grammar with no hard failure (a visible    *)
(* start rule, no unresolved name in a hard-fail context) is interned      *)
(* successfully whatever its variables_to_inline, and the output           *)
(* variables_to_inline is the list of the resolved symbols of the          *)
(* resolvable input names, in input order.                                 *)
(***************************************************************************)
ResolvedInline(g) ==
    LET kept == SelectSeq(g.variables_to_inline, LAMBDA n : Resolvable(g, n))
    IN [k \in 1..Len(kept) |-> Resolved(g, kept[k])]

SoftFailInlining ==
    /\ (Done /\ VisibleStart(grammar) /\ ~HardUndefined(grammar)) => result.tag = "Ok"
    /\ Succeeded => result.value.variables_to_inline = ResolvedInline(grammar)

\* A successful run that dropped an unresolvable inline name standing before
\* a resolvable one.
SoftFailInliningWitness ==
    /\ Succeeded
    /\ \E a, b \in 1..Len(grammar.variables_to_inline) :
          /\ a < b
          /\ ~Resolvable(grammar, grammar.variables_to_inline[a])
          /\ Resolvable(grammar, grammar.variables_to_inline[b])
    /\ Len(result.value.variables_to_inline) >= 1
    /\ Len(result.value.variables_to_inline) < Len(grammar.variables_to_inline)

(***************************************************************************)
(* C6 -- Referential integrity.  Every symbol of a successful output is a  *)
(* NonTerminal whose index is a position of variables or an External whose *)
(* index is a position of external_tokens.                                 *)
(***************************************************************************)
RECURSIVE SymbolsOf(_)
SymbolsOf(rule) ==
    CASE rule.type \in {"Choice", "Seq"} ->
            UNION {SymbolsOf(rule.elements[k]) : k \in 1..Len(rule.elements)}
      [] rule.type = "Repeat" -> SymbolsOf(rule.content)
      [] rule.type = "Metadata" -> SymbolsOf(rule.rule)
      [] rule.type = "Symbol" -> {rule.symbol}
      [] OTHER -> {}

Range(s) == {s[k] : k \in 1..Len(s)}

OutputSymbols(o) ==
    UNION {SymbolsOf(o.variables[k].rule) : k \in 1..Len(o.variables)}
      \cup UNION {SymbolsOf(o.external_tokens[k].rule) : k \in 1..Len(o.external_tokens)}
      \cup UNION {SymbolsOf(o.extra_tokens[k]) : k \in 1..Len(o.extra_tokens)}
      \cup Range(o.supertype_symbols)
      \cup UNION {Range(o.expected_conflicts[k]) : k \in 1..Len(o.expected_conflicts)}
      \cup Range(o.variables_to_inline)
      \cup (IF o.word_token.some THEN {o.word_token.value} ELSE {})

\* No NamedSymbol is left in a rule.
RECURSIVE NoNames(_)
NoNames(rule) ==
    CASE rule.type \in {"Choice", "Seq"} ->
            \A k \in 1..Len(rule.elements) : NoNames(rule.elements[k])
      [] rule.type = "Repeat" -> NoNames(rule.content)
      [] rule.type = "Metadata" -> NoNames(rule.rule)
      [] rule.type = "NamedSymbol" -> FALSE
      [] OTHER -> TRUE

ReferentialIntegrity ==
    Succeeded =>
        LET o == result.value IN
        /\ \A sym \in OutputSymbols(o) :
              \/ sym.kind = "NonTerminal" /\ sym.index \in 0..(Len(o.variables) - 1)
              \/ sym.kind = "External" /\ sym.index \in 0..(Len(o.external_tokens) - 1)
        /\ \A k \in 1..Len(o.variables) : NoNames(o.variables[k].rule)
        /\ \A k \in 1..Len(o.external_tokens) : NoNames(o.external_tokens[k].rule)
        /\ \A k \in 1..Len(o.extra_tokens) : NoNames(o.extra_tokens[k])

\* A successful output that refers to its last variable and to its last
\* external token.
ReferentialIntegrityWitness ==
    /\ Succeeded
    /\ non_terminal(Len(result.value.variables) - 1) \in OutputSymbols(result.value)
    /\ external(Len(result.value.external_tokens) - 1) \in OutputSymbols(result.value)

(***************************************************************************)
(* C7 -- Total outcome (as claimed): every run ends with an                *)
(* InternedGrammar, an "Undefined symbol" error or the start-rule error.   *)
(***************************************************************************)
TotalOutcome ==
    Done =>
        \/ result.tag = "Ok"
        \/ result = Err(StartRuleMessage)
        \/ IsUndefinedSymbolError(grammar, result)

(***************************************************************************)
(* C8 -- No observable effect (as claimed): no step of a run writes output *)
(* or changes the input grammar.                                           *)
(***************************************************************************)
NoObservableEffect == [][stderr' = stderr /\ grammar' = grammar]_vars

(***************************************************************************)
(* C9 -- Structure preservation.  intern_rule succeeds on a rule tree      *)
(* without NamedSymbol nodes and returns it unchanged; every rule that     *)
(* intern_rule has produced equals its input with each NamedSymbol(n)      *)
(* replaced by the Symbol n resolves to, everything else being unchanged.  *)
(***************************************************************************)
RECURSIVE Substituted(_, _)
Substituted(g, rule) ==
    CASE rule.type \in {"Choice", "Seq"} ->
            [rule EXCEPT !.elements =
                [k \in 1..Len(rule.elements) |-> Substituted(g, rule.elements[k])]]
      [] rule.type = "Repeat" ->
            [rule EXCEPT !.content = Substituted(g, rule.content)]
      [] rule.type = "Metadata" ->
            [rule EXCEPT !.rule = Substituted(g, rule.rule)]
      [] rule.type = "NamedSymbol" ->
            IF Resolvable(g, rule.name)
            THEN [type |-> "Symbol", symbol |-> Resolved(g, rule.name)]
            ELSE rule
      [] OTHER -> rule

\* The rule the function body is about to hand to intern_rule, if any.
PendingRule ==
    CASE pc = "variables" /\ i \in 1..Len(grammar.variables) ->
            <<grammar.variables[i].rule>>
      [] pc = "external_tokens" /\ i \in 1..Len(grammar.external_tokens) ->
            <<grammar.external_tokens[i]>>
      [] pc = "extra_tokens" /\ i \in 1..Len(grammar.extra_tokens) ->
            <<grammar.extra_tokens[i]>>
      [] OTHER -> <<>>

StructurePreservation ==
    /\ \A k \in 1..Len(variables) :
          /\ variables[k].rule = Substituted(grammar, grammar.variables[k].rule)
          /\ NoNames(grammar.variables[k].rule)
                => variables[k].rule = grammar.variables[k].rule
    /\ \A k \in 1..Len(external_tokens) :
          external_tokens[k].rule = Substituted(grammar, grammar.external_tokens[k])
    /\ \A k \in 1..Len(extra_tokens) :
          /\ extra_tokens[k] = Substituted(grammar, grammar.extra_tokens[k])
          /\ NoNames(grammar.extra_tokens[k])
                => extra_tokens[k] = grammar.extra_tokens[k]
    /\ \A k \in 1..Len(PendingRule) :
          NoNames(PendingRule[k]) => intern_rule(grammar, PendingRule[k]) = Ok(PendingRule[k])
    /\ Succeeded =>
          /\ Len(result.value.variables) = Len(grammar.variables)
          /\ \A k \in 1..Len(grammar.variables) :
                result.value.variables[k].rule
                   = Substituted(grammar, grammar.variables[k].rule)

Depth2(rule) ==
    /\ rule.type \in {"Choice", "Seq"}
    /\ \E k \in 1..Len(rule.elements) :
          rule.elements[k].type \in {"Choice", "Seq", "Repeat", "Metadata"}

\* intern_rule has returned the rewritten form of a rule tree of two levels
\* that holds a Metadata node and at least one name.
StructurePreservationWitness ==
    /\ Len(variables) >= 1
    /\ Depth2(grammar.variables[1].rule)
    /\ NamesOf(grammar.variables[1].rule) # <<>>
    /\ Len(grammar.variables[1].rule.elements) = 2
    /\ grammar.variables[1].rule.elements[1].type = "Metadata"
    /\ variables[1].rule # grammar.variables[1].rule

(***************************************************************************)
(* C10 -- First failure wins.  When a grammar with a visible start rule    *)
(* has unresolved names in hard-fail contexts, the run ends with the       *)
(* "Undefined symbol" error of the first of them in the processing order   *)
(* (variables, external tokens, extra tokens, supertype symbols, expected  *)
(* conflicts, word token; children left to right), whatever the names in   *)
(* variables_to_inline.                                                    *)
(***************************************************************************)
FirstFailureWins ==
    (Done /\ VisibleStart(grammar) /\ HardUndefined(grammar)) =>
        result = Err(<<"Undefined symbol ", "BACKQUOTE">>
                        \o Unresolved(grammar, HardNames(grammar))[1]
                        \o <<"BACKQUOTE">>)

\* A rejected grammar with two different unresolved names in hard-fail
\* contexts.
FirstFailureWinsWitness ==
    /\ Done
    /\ VisibleStart(grammar)
    /\ \E a, b \in 1..Len(Unresolved(grammar, HardNames(grammar))) :
          Unresolved(grammar, HardNames(grammar))[a]
             # Unresolved(grammar, HardNames(grammar))[b]
    /\ result.tag = "Err"

====
